---- MODULE Spec2Model ----
(***************************************************************************)
(* The five visual experiments of the repository as one state machine.     *)
(*                                                                         *)
(*   "torus-knot"        src/experiments/torus-knot/main.ts                *)
(*   "trefoil-halftone"  src/experiments/trefoil-halftone/main.ts          *)
(*   "torus-prism"       src/experiments/torus-prism/main.ts (glass+bloom) *)
(*   "prism-bloom"       src/unnamed/part_000, lines 1-156                 *)
(*   "prism-refraction"  src/unnamed/part_000, lines 158-376               *)
(*                                                                         *)
(* Units.  Every number is an integer:                                     *)
(*   - the renderer's _width/_height are held in QUARTER css pixels (the   *)
(*     restore of the single-pass exports divides a canvas size by         *)
(*     scale = 4, so quarters are exact);                                  *)
(*   - pixel ratios (window.devicePixelRatio, the renderer's pixelRatio)   *)
(*     are held in HALVES (2 is 1.0, 3 is 1.5, 4 is 2.0);                  *)
(*   - the canvas (drawing buffer) is in whole device pixels, floored as   *)
(*     WebGLRenderer.setSize floors it;                                    *)
(*   - offscreen target sizes and winResolution are in HALF device pixels  *)
(*     (window pixels times a ratio in halves; never floored by the code); *)
(*   - window sizes, composer sizes and uResolution are in css pixels.     *)
(***************************************************************************)
EXTENDS Integers, Sequences, FiniteSets, TLC

\* ------------------------------------------------------------------ bounds
MaxWidth == 2
MaxHeight == 2
MaxDprHalves == 5
MaxClock == 1
MaxFailures == 1

\* ------------------------------------------------------- program constants
scale == 4
MaxPixelRatio == 2
DotDensity == 6

Experiments ==
  {"torus-knot", "trefoil-halftone", "torus-prism", "prism-bloom", "prism-refraction"}

Refraction(e) == e = "prism-refraction"
UsesComposer(e) == e \in {"torus-prism", "prism-bloom"}
DirectRender(e) == e \in {"torus-knot", "trefoil-halftone"}

Widths == 1..MaxWidth
Heights == 1..MaxHeight
\* window.devicePixelRatio in halves: 1.0, 1.5, 2.0, 2.5, ...
PixelRatios == 2..MaxDprHalves

VARIABLES
  exp,               \* which experiment's page is loaded
  dom,               \* [container, appended, listeners]: the page and what
                     \* the constructor did to it
  window,            \* [innerWidth, innerHeight, devicePixelRatio]
  now,               \* Date.now()
  renderer,          \* [width, height (quarter px), pixelRatio (halves), target]
  canvas,            \* renderer.domElement: [width, height] in device pixels
  aspect,            \* camera.aspect, a reduced fraction <<num, den>>
  composer,          \* EffectComposer size <<[width, height]>>, or <<>>
  uniforms,          \* material.uniforms
  side,              \* material.side
  visible,           \* torusKnot.visible
  backRenderTarget,  \* <<[width, height]>> in half device pixels, or <<>>
  mainRenderTarget,
  constructing,      \* the constructor has not returned yet
  pending,           \* animation callbacks requested and not yet run
  frame,             \* position of the running animate() call
  handler,           \* position of the running exportHighRes() call
  locals,            \* the running exportHighRes's local constants
  link,              \* the running exportHighRes's <a> element
  failures,          \* render calls that have thrown so far
  frameLog,          \* calls made by the current (or last) animate()
  frameEnv,          \* sizes and last task at the running frame's first step
  abandoned,         \* what the last animate() left behind if it threw
  exportLog,         \* steps of the running export, kept until the next task
  pre,               \* sizes when that export began, kept until the next task
  shot,              \* canvas size serialized by the last export since a resize
  prevShot,          \* ... and by the export before it
  lastTask,          \* the last task that ran to its end
  afterResize,       \* the current (or last) frame began right after a resize
                     \* and no resize has run since
  stuck              \* what the last export whose render threw left behind:
                     \* [env (forgotten at a resize), uDotDensity, intact (no
                     \* export has begun since)]

vars ==
  <<exp, dom, window, now, renderer, canvas, aspect, composer, uniforms, side, visible,
    backRenderTarget, mainRenderTarget, constructing, pending, frame, handler,
    locals, link, failures, frameLog, frameEnv, abandoned, exportLog, pre, shot,
    prevShot, lastTask, afterResize, stuck>>

\* ----------------------------------------------------------------- helpers
Min(a, b) == IF a <= b THEN a ELSE b

RECURSIVE GCD(_, _)
GCD(a, b) == IF b = 0 THEN a ELSE GCD(b, a % b)

\* width / height as the camera stores it: equal quotients are equal values
\* (the export's 4w / 4h is the same double as w / h); <<1, 0>> is Infinity
\* and <<0, 0>> is NaN.
Ratio(w, h) == LET g == GCD(w, h) IN IF g = 0 THEN <<0, 0>> ELSE <<w \div g, h \div g>>

Size(w, h) == [width |-> w, height |-> h]

\* Math.min(window.devicePixelRatio, 2), in halves
ClampedDpr(d) == Min(d, 2 * MaxPixelRatio)

\* WebGLRenderer.setSize(w, h) with w, h given in quarter css pixels:
\* _width = w, canvas.width = Math.floor(w * pixelRatio)
SetSize(r, wq, hq) == [r EXCEPT !.width = wq, !.height = hq]
CanvasOf(wq, hq, ratio) ==
  Size((wq * ratio) \div (scale * 2), (hq * ratio) \div (scale * 2))

\* window.innerWidth * dpr for the offscreen targets and winResolution
TargetSizeUnclamped(w, h, d) == Size(w * d, h * d)
TargetSize(w, h, d) == Size(w * ClampedDpr(d), h * ClampedDpr(d))

\* the sizes a frame or an export can observe
Env ==
  [renderer |-> Size(renderer.width, renderer.height), canvas |-> canvas,
   aspect |-> aspect, composer |-> composer,
   uResolution |-> uniforms.uResolution, uDotDensity |-> uniforms.uDotDensity,
   winResolution |-> uniforms.winResolution,
   back |-> backRenderTarget, main |-> mainRenderTarget]

\* the size of the offscreen target the renderer is aimed at (<<>>: the screen)
TargetWritten ==
  IF renderer.target = "back" THEN backRenderTarget
  ELSE IF renderer.target = "main" THEN mainRenderTarget
  ELSE <<>>

\* one call made by animate() as the renderer sees it
Call(name, ok) ==
  [call |-> name, target |-> renderer.target, size |-> TargetWritten,
   visible |-> visible, side |-> side, uTexture |-> uniforms.uTexture, ok |-> ok]

RenderName(e) == IF UsesComposer(e) THEN "composer.render" ELSE "renderer.render"

RECURSIVE RenderTargets(_)
RenderTargets(log) ==
  IF log = <<>> THEN <<>>
  ELSE IF Head(log).call = "controls.update" THEN RenderTargets(Tail(log))
  ELSE <<Head(log).target>> \o RenderTargets(Tail(log))

IsPrefix(s, t) == Len(s) <= Len(t) /\ SubSeq(t, 1, Len(s)) = s

\* No task is running: handlers are plain synchronous functions, so the host
\* starts the next one only once the running one has returned or thrown.
StackEmptyAsync == TRUE
StackEmpty == frame = "idle" /\ handler = "idle"

\* ------------------------------------------------------------ construction
InitialPixelRatio(e, d) == IF DirectRender(e) THEN 2 ELSE ClampedDpr(d)

InitialUniforms(e, w, h, d) ==
  [uTexture |-> IF Refraction(e) THEN "null" ELSE "undefined",
   uResolution |-> IF DirectRender(e) THEN <<Size(w, h)>> ELSE <<>>,
   uDotDensity |-> IF e = "trefoil-halftone" THEN <<DotDensity>> ELSE <<>>,
   winResolution |-> IF Refraction(e) THEN <<TargetSize(w, h, d)>> ELSE <<>>]

InitialSide(e) == IF UsesComposer(e) THEN "DoubleSide" ELSE "FrontSide"

\* what the constructor does to the page: `if (container) appendChild(canvas)`,
\* then the 'resize' listener, the export button's 'click' listener, and the
\* first call of animate.  An unguarded appendChild on a missing container
\* would throw and end the constructor there.
ConstructUnguarded(c) ==
  [container |-> c, appended |-> c,
   listeners |-> IF c THEN {"resize", "click"} ELSE {},
   started |-> c]
Construct(c) ==
  [container |-> c, appended |-> c, listeners |-> {"resize", "click"},
   started |-> TRUE]

Init ==
  \E e \in Experiments, w \in Widths, h \in Heights, d \in PixelRatios,
     c \in BOOLEAN :
    /\ exp = e
    /\ dom = Construct(c)
    /\ window = [innerWidth |-> w, innerHeight |-> h, devicePixelRatio |-> d]
    /\ now = 0
    /\ renderer = [width |-> w * scale, height |-> h * scale,
                   pixelRatio |-> InitialPixelRatio(e, d), target |-> "null"]
    /\ canvas = CanvasOf(w * scale, h * scale, InitialPixelRatio(e, d))
    /\ aspect = Ratio(w, h)
    /\ composer = IF UsesComposer(e) THEN <<Size(w, h)>> ELSE <<>>
    /\ uniforms = InitialUniforms(e, w, h, d)
    /\ side = InitialSide(e)
    /\ visible = TRUE
    /\ backRenderTarget = IF Refraction(e) THEN <<TargetSize(w, h, d)>> ELSE <<>>
    /\ mainRenderTarget = IF Refraction(e) THEN <<TargetSize(w, h, d)>> ELSE <<>>
    /\ constructing = Construct(c).started
    /\ pending = 0
    /\ frame = "idle"
    /\ handler = "idle"
    /\ locals = <<>>
    /\ link = <<>>
    /\ failures = 0
    /\ frameLog = <<>>
    /\ frameEnv = <<>>
    /\ abandoned = <<>>
    /\ exportLog = <<>>
    /\ pre = <<>>
    /\ shot = <<>>
    /\ prevShot = <<>>
    /\ lastTask = "constructor"
    /\ afterResize = FALSE
    /\ stuck = <<>>

\* ------------------------------------------------------------------- clock
Tick ==
  /\ now < MaxClock
  /\ now' = now + 1
  /\ UNCHANGED <<afterResize, stuck>>
  /\ UNCHANGED <<exp, dom, window, renderer, canvas, aspect, composer, uniforms, side,
                 visible, backRenderTarget, mainRenderTarget, constructing, pending,
                 frame, handler, locals, link, failures, frameLog, frameEnv,
                 abandoned, exportLog, pre, shot, prevShot, lastTask>>

\* ----------------------------------------------------------------- animate
\* requestAnimationFrame(this.animate.bind(this)): one more callback is due
NoRequest(p) == p
RequestTwice(p) == p + 2
RequestAnimationFrame(p) == p + 1

\* part_000:354-356: hide the knot, aim the renderer at the "back" target
ShowKnotToBack ==
  /\ visible' = visible
  /\ renderer' = [renderer EXCEPT !.target = "back"]
HideKnotToBack ==
  /\ visible' = FALSE
  /\ renderer' = [renderer EXCEPT !.target = "back"]

\* part_000:360-364: sample "back", cull front faces, show the knot, aim at "main"
BackFacePrepNoTexture ==
  /\ uniforms' = uniforms
  /\ side' = "BackSide"
  /\ visible' = TRUE
  /\ renderer' = [renderer EXCEPT !.target = "main"]
BackFacePrepFeedback ==
  /\ uniforms' = [uniforms EXCEPT !.uTexture = "main"]
  /\ side' = "BackSide"
  /\ visible' = TRUE
  /\ renderer' = [renderer EXCEPT !.target = "main"]
BackFacePrep ==
  /\ uniforms' = [uniforms EXCEPT !.uTexture = "back"]
  /\ side' = "BackSide"
  /\ visible' = TRUE
  /\ renderer' = [renderer EXCEPT !.target = "main"]

\* part_000:368-371: sample "main", cull back faces, aim at the screen
FrontFacePrepStale ==
  /\ uniforms' = uniforms
  /\ side' = "FrontSide"
  /\ renderer' = [renderer EXCEPT !.target = "null"]
FrontFacePrepKeepSide ==
  /\ uniforms' = [uniforms EXCEPT !.uTexture = "main"]
  /\ side' = side
  /\ renderer' = [renderer EXCEPT !.target = "null"]
FrontFacePrepAgain ==
  /\ uniforms' = [uniforms EXCEPT !.uTexture = "main"]
  /\ side' = "FrontSide"
  /\ renderer' = [renderer EXCEPT !.target = "main"]
FrontFacePrep ==
  /\ uniforms' = [uniforms EXCEPT !.uTexture = "main"]
  /\ side' = "FrontSide"
  /\ renderer' = [renderer EXCEPT !.target = "null"]

\* this.controls.update(), the first thing animate() does after the request
ControlsSkipped == <<>>
ControlsUpdate == <<Call("controls.update", TRUE)>>

\* animate() is entered: by the constructor's own call the first time, by the
\* host's animation callback afterwards.  It requests its successor first, then
\* updates the controls, then (refraction) prepares pass 1.
AnimateBegin ==
  /\ StackEmpty
  /\ constructing \/ pending > 0
  /\ pending' = RequestAnimationFrame(IF constructing THEN pending ELSE pending - 1)
  /\ frameLog' = ControlsUpdate
  /\ afterResize' = (lastTask = "onResize")
  /\ frameEnv' = <<[env |-> Env, lastTask |-> lastTask]>>
  /\ IF Refraction(exp)
       THEN /\ HideKnotToBack
            /\ frame' = "render1"
       ELSE /\ frame' = "render"
            /\ UNCHANGED <<visible, renderer>>
  /\ exportLog' = <<>>
  /\ pre' = <<>>
  /\ UNCHANGED <<stuck>>
  /\ UNCHANGED <<exp, dom, window, now, canvas, aspect, composer, uniforms, side,
                 backRenderTarget, mainRenderTarget, constructing, handler, locals,
                 link, failures, abandoned, shot, prevShot, lastTask>>

\* pass 1 returns: renderer.render into "back", then the back-face set-up
RenderBack ==
  /\ frame = "render1"
  /\ frameLog' = Append(frameLog, Call("renderer.render", TRUE))
  /\ BackFacePrep
  /\ frame' = "render2"
  /\ UNCHANGED <<afterResize, stuck>>
  /\ UNCHANGED <<exp, dom, window, now, canvas, aspect, composer, backRenderTarget,
                 mainRenderTarget, constructing, pending, handler, locals, link,
                 failures, frameEnv, abandoned, exportLog, pre, shot, prevShot,
                 lastTask>>

\* pass 2 returns: renderer.render into "main", then the front-face set-up
RenderMain ==
  /\ frame = "render2"
  /\ frameLog' = Append(frameLog, Call("renderer.render", TRUE))
  /\ FrontFacePrep
  /\ frame' = "render3"
  /\ UNCHANGED <<afterResize, stuck>>
  /\ UNCHANGED <<exp, dom, window, now, canvas, aspect, composer, visible,
                 backRenderTarget, mainRenderTarget, constructing, pending, handler,
                 locals, link, failures, frameEnv, abandoned, exportLog, pre, shot,
                 prevShot, lastTask>>

\* the last render call of animate() returns, and animate() with it
RenderScreen ==
  /\ frame \in {"render3", "render"}
  /\ frameLog' = Append(frameLog, Call(RenderName(exp), TRUE))
  /\ frame' = "idle"
  /\ constructing' = FALSE
  /\ abandoned' = <<>>
  /\ lastTask' = "animate"
  /\ frameEnv' = <<>>
  /\ UNCHANGED <<afterResize, stuck>>
  /\ UNCHANGED <<exp, dom, window, now, renderer, canvas, aspect, composer, uniforms,
                 side, visible, backRenderTarget, mainRenderTarget, pending, handler,
                 locals, link, failures, exportLog, pre, shot, prevShot>>

\* a render call of animate() throws: the exception unwinds animate() (and the
\* constructor, if it is the first call); nothing in the code catches it
AnimateThrow ==
  /\ frame # "idle"
  /\ failures < MaxFailures
  /\ failures' = failures + 1
  /\ frameLog' = Append(frameLog, Call(RenderName(exp), FALSE))
  /\ frame' = "idle"
  /\ constructing' = FALSE
  /\ abandoned' = <<[visible |-> visible, side |-> side,
                     uTexture |-> uniforms.uTexture]>>
  /\ lastTask' = "animateThrew"
  /\ frameEnv' = <<>>
  /\ UNCHANGED <<afterResize, stuck>>
  /\ UNCHANGED <<exp, dom, window, now, renderer, canvas, aspect, composer, uniforms,
                 side, visible, backRenderTarget, mainRenderTarget, pending, handler,
                 locals, link, exportLog, pre, shot, prevShot>>

\* ---------------------------------------------------------------- onResize
\* css pixels as quarter css pixels
InQuarters(px) == px * scale
\* px / scale css pixels, as quarter css pixels
FourthInQuarters(px) == px

\* part_000:319-332: both targets and winResolution take the new size
ResizedBackOnly(w, h, d) ==
  [back |-> <<TargetSize(w, h, d)>>, main |-> mainRenderTarget,
   winResolution |-> <<TargetSize(w, h, d)>>]
ResizedStaleUniform(w, h, d) ==
  [back |-> <<TargetSize(w, h, d)>>, main |-> <<TargetSize(w, h, d)>>,
   winResolution |-> uniforms.winResolution]
ResizedTargets(w, h, d) ==
  [back |-> <<TargetSize(w, h, d)>>, main |-> <<TargetSize(w, h, d)>>,
   winResolution |-> <<TargetSize(w, h, d)>>]

\* window 'resize': the window takes its new size and ratio and the listener
\* runs to its end
Resize ==
  /\ StackEmpty
  /\ ~constructing
  /\ "resize" \in dom.listeners
  /\ \E w \in Widths, h \in Heights, d \in PixelRatios :
       /\ window' = [innerWidth |-> w, innerHeight |-> h, devicePixelRatio |-> d]
       /\ aspect' = Ratio(w, h)
       /\ renderer' = SetSize(renderer, InQuarters(w), InQuarters(h))
       /\ canvas' = CanvasOf(InQuarters(w), InQuarters(h), renderer.pixelRatio)
       /\ composer' = IF UsesComposer(exp) THEN <<Size(w, h)>> ELSE composer
       /\ backRenderTarget' =
            IF Refraction(exp) THEN ResizedTargets(w, h, d).back ELSE backRenderTarget
       /\ mainRenderTarget' =
            IF Refraction(exp) THEN ResizedTargets(w, h, d).main ELSE mainRenderTarget
       /\ uniforms' =
            IF Refraction(exp)
              THEN [uniforms EXCEPT
                      !.winResolution = ResizedTargets(w, h, d).winResolution]
            ELSE IF DirectRender(exp)
              THEN [uniforms EXCEPT !.uResolution = <<Size(w, h)>>]
            ELSE uniforms
  /\ shot' = <<>>
  /\ prevShot' = <<>>
  /\ stuck' = IF stuck = <<>> THEN <<>> ELSE <<[stuck[1] EXCEPT !.env = <<>>]>>
  /\ afterResize' = FALSE
  /\ lastTask' = "onResize"
  /\ exportLog' = <<>>
  /\ pre' = <<>>
  /\ UNCHANGED <<exp, dom, now, side, visible, constructing, pending, frame, handler,
                 locals, link, failures, frameLog, frameEnv, abandoned>>

\* ----------------------------------------------------------- exportHighRes
\* const width = window.innerWidth * scale, height = window.innerHeight * scale
ExportSizeFromCanvas == Size(canvas.width * scale, canvas.height * scale)
ExportSize == Size(window.innerWidth * scale, window.innerHeight * scale)

\* where exportHighRes goes after its first statements: the refraction
\* experiment serializes at once, the others force a render first
SkipForcedRender(e) == "serialize"
FirstExportStep(e) == IF Refraction(e) THEN "serialize" ELSE "render"

FilePrefix(e) ==
  IF e = "torus-knot" THEN "torus-knot-"
  ELSE IF e = "trefoil-halftone" THEN "trefoil-halftone-"
  ELSE "torus-prism-"

\* the export button is clicked: exportHighRes up to its forced render
ExportBegin ==
  /\ StackEmpty
  /\ ~constructing
  /\ "click" \in dom.listeners
  /\ pre' = <<Env>>
  /\ stuck' = IF stuck = <<>> THEN <<>> ELSE <<[stuck[1] EXCEPT !.intact = FALSE]>>
  /\ handler' = FirstExportStep(exp)
  /\ IF Refraction(exp)
       THEN /\ exportLog' = <<>>
            /\ UNCHANGED <<renderer, canvas, aspect, composer, uniforms, locals>>
       ELSE /\ exportLog' = <<"scale">>
            /\ renderer' =
                 SetSize(renderer, InQuarters(ExportSize.width),
                         InQuarters(ExportSize.height))
            /\ canvas' =
                 CanvasOf(InQuarters(ExportSize.width), InQuarters(ExportSize.height),
                          renderer.pixelRatio)
            /\ aspect' = Ratio(ExportSize.width, ExportSize.height)
            /\ composer' = IF UsesComposer(exp) THEN <<ExportSize>> ELSE composer
            /\ locals' =
                 IF DirectRender(exp)
                   THEN <<[originalWidth |-> canvas.width,
                           originalHeight |-> canvas.height,
                           originalDotDensity |-> uniforms.uDotDensity]>>
                   ELSE <<>>
            /\ uniforms' =
                 IF exp = "trefoil-halftone"
                   THEN [uniforms EXCEPT
                           !.uResolution = <<ExportSize>>,
                           !.uDotDensity = <<uniforms.uDotDensity[1] * scale>>]
                 ELSE IF exp = "torus-knot"
                   THEN [uniforms EXCEPT !.uResolution = <<ExportSize>>]
                 ELSE uniforms
  /\ UNCHANGED <<afterResize>>
  /\ UNCHANGED <<exp, dom, window, now, side, visible, backRenderTarget,
                 mainRenderTarget, constructing, pending, frame, link, failures,
                 frameLog, frameEnv, abandoned, shot, prevShot, lastTask>>

\* the forced render returns
ExportRender ==
  /\ handler = "render"
  /\ exportLog' = Append(exportLog, "render")
  /\ handler' = "serialize"
  /\ UNCHANGED <<afterResize, stuck>>
  /\ UNCHANGED <<exp, dom, window, now, renderer, canvas, aspect, composer, uniforms,
                 side, visible, backRenderTarget, mainRenderTarget, constructing,
                 pending, frame, locals, link, failures, frameLog, frameEnv,
                 abandoned, pre, shot, prevShot, lastTask>>

\* the forced render throws: exportHighRes is unwound, its restore never runs
\* (there is no try/finally around the render; with one, the restore would run)
ExportThrowCaught ==
  /\ handler = "render"
  /\ failures < MaxFailures
  /\ failures' = failures + 1
  /\ exportLog' = Append(exportLog, "render threw")
  /\ handler' = "restore"
  /\ lastTask' = "exportThrew"
  /\ stuck' = <<[env |-> <<Env>>, uDotDensity |-> uniforms.uDotDensity,
                 intact |-> TRUE]>>
  /\ UNCHANGED <<afterResize, locals>>
  /\ UNCHANGED <<exp, dom, window, now, renderer, canvas, aspect, composer, uniforms,
                 side, visible, backRenderTarget, mainRenderTarget, constructing,
                 pending, frame, link, frameLog, frameEnv, abandoned, pre, shot,
                 prevShot>>
ExportThrow ==
  /\ handler = "render"
  /\ failures < MaxFailures
  /\ failures' = failures + 1
  /\ exportLog' = Append(exportLog, "render threw")
  /\ handler' = "idle"
  /\ lastTask' = "exportThrew"
  /\ stuck' = <<[env |-> <<Env>>, uDotDensity |-> uniforms.uDotDensity,
                 intact |-> TRUE]>>
  /\ locals' = <<>>
  /\ UNCHANGED <<afterResize>>
  /\ UNCHANGED <<exp, dom, window, now, renderer, canvas, aspect, composer, uniforms,
                 side, visible, backRenderTarget, mainRenderTarget, constructing,
                 pending, frame, link, frameLog, frameEnv, abandoned, pre, shot,
                 prevShot>>

\* link.download = `<prefix>${Date.now()}.png`; link.href = canvas.toDataURL()
ExportSerialize ==
  /\ handler = "serialize"
  /\ link' = <<[download |-> [prefix |-> FilePrefix(exp), stamp |-> now,
                              type |-> "png"],
                href |-> canvas]>>
  /\ exportLog' = Append(exportLog, "serialize")
  /\ prevShot' = shot
  /\ shot' = <<canvas>>
  /\ handler' = "click"
  /\ UNCHANGED <<afterResize, stuck>>
  /\ UNCHANGED <<exp, dom, window, now, renderer, canvas, aspect, composer, uniforms,
                 side, visible, backRenderTarget, mainRenderTarget, constructing,
                 pending, frame, locals, failures, frameLog, frameEnv, abandoned,
                 pre, lastTask>>

\* link.click(): the download starts; the refraction export ends here
ExportClick ==
  /\ handler = "click"
  /\ exportLog' = Append(exportLog, "download")
  /\ IF Refraction(exp)
       THEN handler' = "idle" /\ lastTask' = "exportHighRes" /\ link' = <<>>
       ELSE handler' = "restore" /\ lastTask' = lastTask /\ link' = link
  /\ UNCHANGED <<afterResize, stuck>>
  /\ UNCHANGED <<exp, dom, window, now, renderer, canvas, aspect, composer, uniforms,
                 side, visible, backRenderTarget, mainRenderTarget, constructing,
                 pending, frame, locals, failures, frameLog, frameEnv, abandoned,
                 pre, shot, prevShot>>

\* the size the export's last statements give the renderer, in quarter pixels:
\* the composer experiments pass the window's size, the single-pass ones
\* originalWidth / scale and originalHeight / scale
RestoreSize ==
  IF DirectRender(exp)
    THEN Size(FourthInQuarters(locals[1].originalWidth),
              FourthInQuarters(locals[1].originalHeight))
    ELSE Size(InQuarters(window.innerWidth), InQuarters(window.innerHeight))

ExportRestore ==
  /\ handler = "restore"
  /\ exportLog' = Append(exportLog, "restore")
  /\ renderer' = SetSize(renderer, RestoreSize.width, RestoreSize.height)
  /\ canvas' = CanvasOf(RestoreSize.width, RestoreSize.height, renderer.pixelRatio)
  /\ composer' =
       IF UsesComposer(exp)
         THEN <<Size(window.innerWidth, window.innerHeight)>>
         ELSE composer
  /\ uniforms' =
       IF exp = "trefoil-halftone"
         THEN [uniforms EXCEPT
                 !.uResolution = <<Size(window.innerWidth, window.innerHeight)>>,
                 !.uDotDensity = locals[1].originalDotDensity]
       ELSE IF exp = "torus-knot"
         THEN [uniforms EXCEPT
                 !.uResolution = <<Size(window.innerWidth, window.innerHeight)>>]
       ELSE uniforms
  /\ aspect' = Ratio(window.innerWidth, window.innerHeight)
  /\ handler' = "idle"
  /\ lastTask' = "exportHighRes"
  /\ locals' = <<>>
  /\ link' = <<>>
  /\ UNCHANGED <<afterResize, stuck>>
  /\ UNCHANGED <<exp, dom, window, now, side, visible, backRenderTarget,
                 mainRenderTarget, constructing, pending, frame, failures, frameLog,
                 frameEnv, abandoned, pre, shot, prevShot>>

\* ----------------------------------------------------------- specification
Next ==
  \/ Tick
  \/ AnimateBegin
  \/ RenderBack
  \/ RenderMain
  \/ RenderScreen
  \/ AnimateThrow
  \/ Resize
  \/ ExportBegin
  \/ ExportRender
  \/ ExportThrow
  \/ ExportSerialize
  \/ ExportClick
  \/ ExportRestore

Spec == Init /\ [][Next]_vars

\* The host runs a started handler to its end (the handlers are synchronous)
\* and keeps serving animation callbacks however many events arrive.
FairSpec ==
  /\ Spec
  /\ SF_vars(AnimateBegin)
  /\ WF_vars(RenderBack)
  /\ WF_vars(RenderMain)
  /\ WF_vars(RenderScreen)
  /\ WF_vars(ExportRender)
  /\ WF_vars(ExportSerialize)
  /\ WF_vars(ExportClick)
  /\ WF_vars(ExportRestore)

\* ================================================================== claims
PassOrder == <<"back", "main", "null">>
ExportSteps == <<"scale", "render", "serialize", "download", "restore">>
RefractionExportSteps == <<"serialize", "download">>

Renders(log) == SelectSeq(log, LAMBDA c : c.call # "controls.update")
ExportReturned == lastTask = "exportHighRes" /\ handler = "idle" /\ pre # <<>>

\* C1: in the refraction experiment, at the moment of the render call to the
\* screen (target null) uTexture is the texture of the target written by the
\* render call just before it ("main"), and not that of the call two earlier
\* ("back"); the same holds of every screen call a frame has logged.
C1_ScreenSamplesPrecedingPass ==
  Refraction(exp) =>
    /\ frame = "render3" =>
         /\ renderer.target = "null"
         /\ Len(RenderTargets(frameLog)) = 2
         /\ uniforms.uTexture = RenderTargets(frameLog)[2]
         /\ uniforms.uTexture # RenderTargets(frameLog)[1]
    /\ \A i \in 1..Len(Renders(frameLog)) :
         Renders(frameLog)[i].target = "null" =>
           /\ i = 3
           /\ Renders(frameLog)[i].uTexture = Renders(frameLog)[i - 1].target
           /\ Renders(frameLog)[i].uTexture # Renders(frameLog)[i - 2].target

C1_Witness ==
  /\ Refraction(exp)
  /\ frame = "idle"
  /\ lastTask = "animate"
  /\ Len(Renders(frameLog)) = 3
  /\ Renders(frameLog)[3].target = "null"
  /\ Renders(frameLog)[3].ok

\* C2: after exportHighRes returns, the renderer size, the canvas size, the
\* camera aspect, the composer size and every scaled uniform (uResolution,
\* uDotDensity) equal their values from just before the export began.
C2_ExportRestoresState == ExportReturned => Env = pre[1]

\* C3: with no resize between them, two consecutive exports serialize canvases
\* of the same pixel dimensions (any number of frames may run between them).
C3_ExportsSameDimensions == (shot # <<>> /\ prevShot # <<>>) => shot = prevShot

C3_Witness ==
  /\ exp = "torus-knot"
  /\ shot # <<>>
  /\ prevShot # <<>>
  /\ handler = "idle"
  /\ lastTask = "animate"
  /\ canvas.width # window.innerWidth

C5_ResizeSetsAspectAndTargets ==
  LET w == window.innerWidth
      h == window.innerHeight
      p == IF window.devicePixelRatio <= 2 * MaxPixelRatio
             THEN window.devicePixelRatio ELSE 2 * MaxPixelRatio
  IN lastTask = "onResize" =>
       /\ aspect[1] * h = aspect[2] * w
       /\ Refraction(exp) =>
            /\ backRenderTarget = <<[width |-> w * p, height |-> h * p]>>
            /\ mainRenderTarget = <<[width |-> w * p, height |-> h * p]>>
       /\ (UsesComposer(exp) /\ handler = "idle") =>
            composer = <<[width |-> w, height |-> h]>>

C5_Witness ==
  /\ Refraction(exp)
  /\ lastTask = "onResize"
  /\ window.devicePixelRatio > 2 * MaxPixelRatio
  /\ backRenderTarget # <<>>
  /\ backRenderTarget[1].width = window.innerWidth * 2 * MaxPixelRatio
  /\ frame = "render2"

\* C6 as stated: every animate() call of the refraction experiment that has
\* ended made exactly the three render calls back, main, screen.
C6_EveryFrameThreeRenders ==
  (Refraction(exp) /\ frame = "idle" /\ ~constructing) =>
    RenderTargets(frameLog) = PassOrder

\* C6 amended: every animate() call makes its render calls in the order back,
\* main, screen, none repeated or skipped; it makes all three unless a render
\* call throws, and then it makes none after the one that threw.
C6_PassesInOrder ==
  Refraction(exp) =>
    /\ IsPrefix(RenderTargets(frameLog), PassOrder)
    /\ \A i \in 1..Len(frameLog) : (~frameLog[i].ok) => i = Len(frameLog)
    /\ (frame = "idle" /\ ~constructing) =>
         /\ frameLog # <<>>
         /\ frameLog[Len(frameLog)].ok => RenderTargets(frameLog) = PassOrder
         /\ (~frameLog[Len(frameLog)].ok) => lastTask # "animate"

C6_Witness ==
  /\ Refraction(exp)
  /\ frame = "idle"
  /\ failures > 0
  /\ lastTask = "animate"
  /\ RenderTargets(frameLog) = PassOrder

\* C7: in the refraction experiment the knot is hidden during the render into
\* "back" and visible during the renders into "main" and to the screen.
C7_VisibilityPerPass ==
  Refraction(exp) =>
    /\ frame = "render1" => ~visible
    /\ frame \in {"render2", "render3"} => visible
    /\ \A i \in 1..Len(Renders(frameLog)) :
         Renders(frameLog)[i].visible = (Renders(frameLog)[i].target # "back")

C7_Witness ==
  /\ Refraction(exp)
  /\ frame = "render1"
  /\ lastTask = "animate"
  /\ ~visible

\* C8: in the refraction experiment the material's side is BackSide during
\* the render into "main" and FrontSide during the render to the screen.
C8_SidePerPass ==
  Refraction(exp) =>
    /\ frame = "render2" => side = "BackSide"
    /\ frame = "render3" => side = "FrontSide"
    /\ \A i \in 1..Len(Renders(frameLog)) :
         /\ Renders(frameLog)[i].target = "main" => Renders(frameLog)[i].side = "BackSide"
         /\ Renders(frameLog)[i].target = "null" => Renders(frameLog)[i].side = "FrontSide"

C8_Witness ==
  /\ Refraction(exp)
  /\ frame = "render3"
  /\ side = "FrontSide"
  /\ lastTask = "animate"

\* C9: a frame and an export handler are never both under way, a frame starts
\* only when no frame is under way, and from a frame's first step to its last
\* no other task has ended and no size has changed: every resize and every
\* export runs between two frames.
C9_NoInterleaving ==
  /\ ~(frame # "idle" /\ handler # "idle")
  /\ frame # "idle" =>
       /\ frameEnv = <<[env |-> Env, lastTask |-> lastTask]>>
       /\ Len(frameLog) = IF frame = "render2" THEN 2
                          ELSE IF frame = "render3" THEN 3 ELSE 1
  /\ handler # "idle" => (pre # <<>> /\ frameEnv = <<>>)

C9_Witness ==
  /\ frame \in {"render2", "render"}
  /\ lastTask \in {"onResize", "exportHighRes"}
  /\ frameEnv # <<>>
  /\ frameEnv[1].env.renderer # Size(InQuarters(window.innerWidth),
                                     InQuarters(window.innerHeight))

\* C10: when a render call of a frame throws, the frame is abandoned, the next
\* animation callback is still due, and it starts at pass 1 (knot hidden,
\* target "back") with the side and uTexture the abandoned frame left; no
\* frame is ever at pass 2 or 3 without having made the passes before it.
C10_AbandonedFrameRetries ==
  /\ abandoned # <<>> =>
       /\ pending >= 1
       /\ frame \in {"idle", "render1", "render2", "render3", "render"}
       /\ frame = "idle" => ~frameLog[Len(frameLog)].ok
       /\ (Refraction(exp) /\ frame = "render1") =>
            /\ ~visible
            /\ renderer.target = "back"
            /\ side = abandoned[1].side
            /\ uniforms.uTexture = abandoned[1].uTexture
  /\ Refraction(exp) =>
       /\ frame = "render1" => RenderTargets(frameLog) = <<>>
       /\ frame = "render2" => RenderTargets(frameLog) = <<"back">>
       /\ frame = "render3" => RenderTargets(frameLog) = <<"back", "main">>

C10_Witness ==
  /\ Refraction(exp)
  /\ abandoned # <<>>
  /\ abandoned[1].uTexture = "back"
  /\ abandoned[1].side = "BackSide"
  /\ frame = "render1"
  /\ lastTask = "onResize"

\* the size a resize to the window's present size gives the offscreen targets
WindowTargets ==
  LET p == IF window.devicePixelRatio <= 2 * MaxPixelRatio
             THEN window.devicePixelRatio ELSE 2 * MaxPixelRatio
  IN <<[width |-> window.innerWidth * p, height |-> window.innerHeight * p]>>

LastCallOk == frameLog # <<>> /\ frameLog[Len(frameLog)].ok

C12_LoopNeverStops ==
  /\ []((StackEmpty /\ ~constructing) => pending > 0)
  /\ []<><<AnimateBegin>>_vars
  /\ []<>(frame = "idle" /\ ~constructing)

C12_Witness ==
  /\ frame # "idle"
  /\ pending = 1
  /\ lastTask = "exportHighRes"
  /\ failures > 0
  /\ shot # <<>>

\* C13: with no 'canvas-container' element the canvas is not appended and
\* nothing is raised: the resize listener and the export button's listener
\* are installed and animate is called.
C13_MissingContainerSkipped ==
  /\ dom.appended = dom.container
  /\ (~dom.container) =>
       /\ dom.listeners = {"resize", "click"}
       /\ dom.started
       /\ constructing \/ frame # "idle" \/ pending >= 1
       /\ (lastTask = "constructor" /\ frame = "idle") => constructing

C13_Witness ==
  /\ ~dom.container
  /\ ~dom.appended
  /\ lastTask = "onResize"
  /\ frame = "render"
  /\ pending = 1

\* C14 as stated: in the refraction experiment uTexture is non-null at every
\* render call, the first one included.
C14_TextureSetBeforeFirstRender ==
  (Refraction(exp) /\ frame # "idle") => uniforms.uTexture # "null"

\* C14 amended: every uniform the material declares other than uTexture holds
\* a value from construction on; uTexture is null from construction until pass
\* 1 has returned, which draws no knot, and holds a target's texture at every
\* render call that draws the knot.
C14_UniformsSetBeforeKnotDrawn ==
  /\ Refraction(exp) =>
       /\ uniforms.winResolution # <<>>
       /\ frame \in {"render2", "render3"} => uniforms.uTexture \in {"back", "main"}
       /\ \A i \in 1..Len(Renders(frameLog)) :
            Renders(frameLog)[i].visible => Renders(frameLog)[i].uTexture # "null"
       /\ (constructing /\ frame \in {"idle", "render1"}) => uniforms.uTexture = "null"
       /\ (frame = "render1" /\ uniforms.uTexture = "null") => ~visible
  /\ DirectRender(exp) => uniforms.uResolution # <<>>
  /\ exp = "trefoil-halftone" => uniforms.uDotDensity # <<>>

C14_Witness ==
  /\ Refraction(exp)
  /\ constructing
  /\ frame = "render2"
  /\ uniforms.uTexture = "back"
  /\ Renders(frameLog)[1].uTexture = "null"

\* C15: in every experiment animate() updates the orbit controls exactly once,
\* and before any of its render calls.
C15_ControlsOncePerFrame ==
  /\ frame # "idle" => frameLog # <<>>
  /\ frameLog # <<>> =>
       /\ frameLog[1].call = "controls.update"
       /\ \A i \in 2..Len(frameLog) : frameLog[i].call # "controls.update"

C15_Witness ==
  /\ UsesComposer(exp)
  /\ frame = "idle"
  /\ lastTask = "animate"
  /\ Len(frameLog) = 2
  /\ frameLog[2].call = "composer.render"

\* C16: in the refraction experiment, at every render call, if the knot is
\* visible its uTexture is non-null and is not the texture of the target the
\* call writes.
C16_NoFeedbackLoop ==
  Refraction(exp) =>
    /\ (frame # "idle" /\ visible) =>
         /\ uniforms.uTexture # "null"
         /\ uniforms.uTexture # renderer.target
    /\ \A i \in 1..Len(Renders(frameLog)) :
         Renders(frameLog)[i].visible =>
           /\ Renders(frameLog)[i].uTexture # "null"
           /\ Renders(frameLog)[i].uTexture # Renders(frameLog)[i].target

C16_Witness ==
  /\ Refraction(exp)
  /\ frame = "render2"
  /\ visible
  /\ abandoned # <<>>
  /\ lastTask = "exportHighRes"

\* C17: in the refraction experiment the two offscreen targets have the same
\* width and height, and winResolution equals them.
C17_TargetsEquallySized ==
  Refraction(exp) =>
    /\ backRenderTarget # <<>>
    /\ backRenderTarget = mainRenderTarget
    /\ uniforms.winResolution = backRenderTarget

C17_Witness ==
  /\ Refraction(exp)
  /\ lastTask = "onResize"
  /\ frame = "render3"
  /\ window.devicePixelRatio = 3
  /\ backRenderTarget = <<[width |-> 3 * window.innerWidth,
                           height |-> 3 * window.innerHeight]>>

\* C18: in the refraction experiment the offscreen targets and winResolution
\* measure the window's size times the renderer's pixel ratio.
C18_TargetsMatchDrawingBuffer ==
  LET buffer == <<[width |-> window.innerWidth * renderer.pixelRatio,
                   height |-> window.innerHeight * renderer.pixelRatio]>>
  IN Refraction(exp) =>
       /\ backRenderTarget = buffer
       /\ mainRenderTarget = buffer
       /\ uniforms.winResolution = buffer

\* C19: at most one animation callback is ever due, exactly one whenever no
\* frame is running (once the constructor has called animate), and none while
\* the constructor has yet to call it; a running handler leaves it at one.
C19_OnePendingCallback ==
  /\ pending \in {0, 1}
  /\ pending = 0 <=> (constructing /\ frame = "idle")
  /\ handler # "idle" => (pending = 1 /\ frame = "idle")

C19_Witness ==
  /\ pending = 1
  /\ frame = "idle"
  /\ handler = "restore"
  /\ lastTask = "onResize"
  /\ abandoned # <<>>

\* C20 as stated: once the forced render of an export has thrown, the sizes it
\* left stay as they are for as long as no resize event occurs.
C20_StuckUntilResize ==
  (stuck # <<>> /\ stuck[1].env # <<>> /\ handler = "idle") => Env = stuck[1].env[1]

\* C20 amended: when the forced render throws, no restore step runs; the
\* renderer size, composer size, camera aspect, uResolution and uDotDensity
\* keep their 4x export values, and frames render with them, until a resize
\* event or a later export; a resize event resets the sizes, the aspect and
\* uResolution but not uDotDensity, which stays scaled until a later export.
C20_StuckUntilResizeOrExport ==
  (~Refraction(exp) /\ stuck # <<>>) =>
    /\ (stuck[1].intact /\ lastTask = "exportThrew" /\ exportLog # <<>>) =>
         exportLog = <<"scale", "render threw">>
    /\ (stuck[1].intact /\ stuck[1].env # <<>>) =>
         /\ Env = stuck[1].env[1]
         /\ renderer.width = scale * InQuarters(window.innerWidth)
         /\ renderer.height = scale * InQuarters(window.innerHeight)
         /\ aspect[1] * window.innerHeight = aspect[2] * window.innerWidth
         /\ DirectRender(exp) =>
              uniforms.uResolution = <<[width |-> scale * window.innerWidth,
                                        height |-> scale * window.innerHeight]>>
         /\ UsesComposer(exp) =>
              composer = <<[width |-> scale * window.innerWidth,
                            height |-> scale * window.innerHeight]>>
    /\ (stuck[1].intact /\ exp = "trefoil-halftone") =>
         /\ uniforms.uDotDensity = stuck[1].uDotDensity
         /\ uniforms.uDotDensity[1] >= scale * DotDensity
    /\ (stuck[1].intact /\ stuck[1].env = <<>>) =>
         /\ renderer.width = InQuarters(window.innerWidth)
         /\ renderer.height = InQuarters(window.innerHeight)
         /\ DirectRender(exp) =>
              uniforms.uResolution = <<[width |-> window.innerWidth,
                                        height |-> window.innerHeight]>>

C20_Witness ==
  /\ exp = "trefoil-halftone"
  /\ stuck # <<>>
  /\ stuck[1].intact
  /\ stuck[1].env # <<>>
  /\ frame = "render"
  /\ lastTask = "animate"
  /\ uniforms.uDotDensity = <<scale * DotDensity>>

====
